---- MODULE Spec2Model ----
(***************************************************************************)
(* Model of the mbl-cli SSH session wrapper (mbl/cli/utils/ssh.py) and of  *)
(* the two action handlers that use it (pelion_status_action.py and        *)
(* put_action.py).                                                         *)
(*                                                                         *)
(* One run of the model is one use of one SSHSession by one caller:        *)
(*   flow = "pelion"  pelion_status_action.execute                         *)
(*   flow = "put"     put_action.execute                                   *)
(*   flow = "block"   a caller's own `with SSHSession(device) as ssh:`     *)
(*                    block whose body performs one operation, or a caller *)
(*                    that releases the session without entering it        *)
(* The paramiko client and the scp client are external collaborators; each *)
(* call on them is a nondeterministic choice over the outcomes the library *)
(* can produce.                                                            *)
(***************************************************************************)
EXTENDS Integers, Sequences, FiniteSets, TLC

VARIABLES
    flow,        \* which caller drives the session
    pc,          \* position of the caller's control flow
    retry_limit, \* _connect's retry_limit parameter
    i,           \* number of iterations of _connect's for loop started
    log,         \* connect-phase events in order: "attempt" / "sleep"
    lastAttempt, \* outcome of the latest self._client.connect call
    open,        \* number of live transports owned by self._client
    closeCalls,  \* number of self._client.close() calls made
    op,          \* operation the body performs
    cmd,         \* run_cmd: the command text
    cmdCheck,    \* run_cmd: the check argument
    cmdWriteout, \* run_cmd: the writeout argument
    execOutcome, \* outcome of self._client.exec_command
    exitStatus,  \* exit status of the remote command
    origOut,     \* lines the remote command wrote to standard output
    origErr,     \* lines the remote command wrote to standard error
    remoteOut,   \* unread part of the stdout channel file
    remoteErr,   \* unread part of the stderr channel file
    fd,          \* index into ssh_chan_output in the writeout loop
    printed,     \* lines printed on the local display, in order
    exitReads,   \* number of recv_exit_status calls
    cmdRet,      \* what the operation returned to the body
    cmdErr,      \* exception the operation raised into the body
    scpOpen,     \* number of open scp sub-sessions
    scpOpens,    \* number of scp sub-sessions created
    scpCloses,   \* number of scp sub-session teardowns
    copies,      \* number of scp_client.put/get calls
    copyErr,     \* exception the scp copy raised
    pending,     \* exception in flight out of the guarded block's body
    result       \* what the caller of the flow observes

\* scp_progress (its own specification, SpecProgress)
VARIABLES
    suppress,    \* the module global SUPPRESS_PROGRESS
    pname,       \* filename argument of the calls
    psize,       \* size argument of the calls
    psent,       \* sent argument of the latest call
    pcalls,      \* number of scp_progress calls made
    pout         \* what the calls printed, in order

progVars == <<suppress, pname, psize, psent, pcalls, pout>>

\* Authentication of one connect call (its own specification, SpecAuth)
VARIABLES
    confExists,  \* ~/.ssh/config exists
    idMapped,    \* the config maps an identity file for the host
    hasPassword, \* self.device.password is set
    accepts,     \* authentication methods the device accepts
    apc,         \* position inside the connect call
    keyArg,      \* key_filename argument of self._client.connect
    pwArg,       \* password argument of self._client.connect
    noneOutcome, \* outcome of self._transport.auth_none
    negotiated,  \* super()._auth was called
    authLog,     \* authentication methods attempted, in order
    authResult   \* how the connect call ended

authVars == <<confExists, idMapped, hasPassword, accepts, apc, keyArg, pwArg,
              noneOutcome, negotiated, authLog, authResult>>

\* The interactive shell relay of shell.py (its own specification, SpecShell)
VARIABLES
    platform,      \* platform.system(): "Posix" (Linux, macOS) or "Windows"
    spc,           \* position of the main task in SSHShell.run
    rpc,           \* position of the write_to_stdout thread (Windows)
    writeTask,     \* value of the variable write_task (Windows)
    tty,           \* current settings of the local terminal
    oldtty,        \* settings saved by termios.tcgetattr
    ttyBefore,     \* settings of the terminal before the relay
    remotePending, \* bytes the remote shell will still write
    chanBuf,       \* bytes that arrived on the channel and are unread
    remoteClosed,  \* the remote side closed the channel
    recvd,         \* bytes chan.recv has returned, in order
    display,       \* what was written to sys.stdout, in order
    stdinPending,  \* units the user will still type
    stdinBuf,      \* units typed and not yet read
    stdinEof,      \* local input is at end of file
    readUnits,     \* units sys.stdin.read(1) has returned, in order
    sentUnits,     \* units chan.send has sent, in order
    rlist,         \* first list returned by select.select
    lastRecv,      \* outcome of the latest chan.recv
    timeouts,      \* number of socket.timeout reads
    sawEmptyRead,  \* a chan.recv returned the empty string
    sawLocalEof,   \* sys.stdin.read(1) returned the empty string
    sentAfterEmpty,\* units passed to chan.send after the empty read
    shellErr       \* exception that left SSHShell.run

relayVars == <<platform, spc, rpc, writeTask, tty, oldtty, ttyBefore,
               remotePending, chanBuf, remoteClosed, recvd, display,
               stdinPending, stdinBuf, stdinEof, readUnits, sentUnits, rlist,
               lastRecv, timeouts, sawEmptyRead, sawLocalEof, sentAfterEmpty,
               shellErr>>

otherVars == <<progVars, authVars, relayVars>>

sessionVars ==
        <<flow, pc, retry_limit, i, log, lastAttempt, open, closeCalls, op,
          cmd, cmdCheck, cmdWriteout, execOutcome, exitStatus, origOut,
          origErr, remoteOut, remoteErr, fd, printed, exitReads, cmdRet,
          cmdErr, scpOpen, scpOpens, scpCloses, copies, copyErr, pending,
          result>>

vars == <<sessionVars, otherVars>>

connVars == <<retry_limit, i, log, lastAttempt, open, closeCalls>>
cmdVars  == <<cmd, cmdCheck, cmdWriteout, execOutcome, exitStatus, origOut,
              origErr, remoteOut, remoteErr, fd, exitReads>>
scpVars  == <<scpOpen, scpOpens, scpCloses, copies, copyErr>>

(***************************************************************************)
(* Bounds                                                                  *)
(***************************************************************************)
MaxRetryLimit == 3
MaxLines == 2
MaxExit == 2
MaxCloseCalls == 2
MaxProgressCalls == 3
MaxRemoteChars == 2
MaxLocalUnits == 2
MaxRecv == 2
MaxTimeouts == 1

(***************************************************************************)
(* Values                                                                  *)
(***************************************************************************)
Flows == {"pelion", "put", "block"}

StdoutLines == {"o1", "o2"}
StderrLines == {"e1"}

RECURSIVE SeqsUpTo(_, _)
SeqsUpTo(S, n) ==
    IF n = 0 THEN {<<>>}
    ELSE LET shorter == SeqsUpTo(S, n - 1)
         IN  shorter \cup {Append(s, x) : s \in shorter, x \in S}

\* recv_exit_status yields -1 when the server sent no exit status
ExitCodes == (-1) .. MaxExit

Cmds == {"cmd"}
PelionCmd == "mbl-provisioning-util --get-pelion-status"
SSHCauses == {"session not active", "channel open failed"}

NoError == [type |-> "none", code |-> 0, msg |-> <<>>]
Err(t, c, m) == [type |-> t, code |-> c, msg |-> m]

Running  == [type |-> "running", code |-> 0, msg |-> <<>>]
Returned == [type |-> "returned", code |-> 0, msg |-> <<>>]

GenericMsg == <<"Remote command returned a non-zero exit code.">>
PelionGuidance ==
    <<"Your device is not correctly configured for Pelion Device Management. You must provision your device using the provision-pelion command.">>

(***************************************************************************)
(* Initial state: SSHSession(device) has been constructed (ssh.py 84-88);  *)
(* the client has no transport yet.  retry_limit is _connect's parameter;  *)
(* __enter__ passes the default 3, the model covers 1..MaxRetryLimit.      *)
(***************************************************************************)
SessionInit ==
    /\ flow \in Flows
    /\ pc = "start"
    /\ retry_limit \in 1 .. MaxRetryLimit
    /\ i = 0
    /\ log = <<>>
    /\ lastAttempt = "none"
    /\ open = 0
    /\ closeCalls = 0
    /\ op = "none"
    /\ cmd = "none"
    /\ cmdCheck = FALSE
    /\ cmdWriteout = FALSE
    /\ execOutcome = "none"
    /\ exitStatus = 0
    /\ origOut = <<>>
    /\ origErr = <<>>
    /\ remoteOut = <<>>
    /\ remoteErr = <<>>
    /\ fd = 0
    /\ printed = <<>>
    /\ exitReads = 0
    /\ cmdRet = "none"
    /\ cmdErr = NoError
    /\ scpOpen = 0
    /\ scpOpens = 0
    /\ scpCloses = 0
    /\ copies = 0
    /\ copyErr = NoError
    /\ pending = NoError
    /\ result = Running

\* The session is not used: the state the other specifications keep it in.
SessionIdle ==
    /\ SessionInit
    /\ flow = "block"
    /\ retry_limit = 1

\* No transfer is in progress: scp_progress has not been called.
ProgIdle ==
    /\ suppress = FALSE
    /\ pname = [kind |-> "str", text |-> "f"]
    /\ psize = 0
    /\ psent = 0
    /\ pcalls = 0
    /\ pout = <<>>

\* No connect call is being looked into.
AuthIdle ==
    /\ confExists = FALSE
    /\ idMapped = FALSE
    /\ hasPassword = FALSE
    /\ accepts = {}
    /\ apc = "start"
    /\ keyArg = "None"
    /\ pwArg = "None"
    /\ noneOutcome = "none"
    /\ negotiated = FALSE
    /\ authLog = <<>>
    /\ authResult = "running"

\* No shell is running.
RelayIdle ==
    /\ platform = "Posix"
    /\ spc = "idle"
    /\ rpc = "idle"
    /\ writeTask = "unset"
    /\ tty = "cooked"
    /\ oldtty = "unset"
    /\ ttyBefore = "cooked"
    /\ remotePending = <<>>
    /\ chanBuf = <<>>
    /\ remoteClosed = FALSE
    /\ recvd = <<>>
    /\ display = <<>>
    /\ stdinPending = <<>>
    /\ stdinBuf = <<>>
    /\ stdinEof = FALSE
    /\ readUnits = <<>>
    /\ sentUnits = <<>>
    /\ rlist = {}
    /\ lastRecv = "none"
    /\ timeouts = 0
    /\ sawEmptyRead = FALSE
    /\ sawLocalEof = FALSE
    /\ sentAfterEmpty = 0
    /\ shellErr = NoError

OtherIdle == ProgIdle /\ AuthIdle /\ RelayIdle

Init == SessionInit /\ OtherIdle

(***************************************************************************)
(* SSHSession.__enter__ and SSHSession._connect                            *)
(***************************************************************************)

\* put_action.execute prints its banner, then both handlers and the
\* caller's block evaluate `with SSHSession(device)`: __enter__ calls
\* self._connect(), which starts its for loop.
enter ==
    /\ pc = "start"
    /\ pc' = "connect"
    /\ printed' = IF flow = "put" THEN Append(printed, "Putting") ELSE printed
    /\ UNCHANGED otherVars
    /\ UNCHANGED <<flow, connVars, op, cmdVars, cmdRet, cmdErr, scpVars,
                   pending, result>>

\* Outcomes of self._client.connect: success, a paramiko.SSHException
\* (protocol-level failure), or any other exception (socket errors).
ConnectOutcomes == {"ok", "SSHException", "OtherError"}

\* Variant: the else clause with its break is missing, the loop goes on
\* after a successful attempt.
attempt_next_no_break(outcome) ==
    CASE outcome = "ok" -> "connect"
      [] outcome = "SSHException" -> "sleep"
      [] OTHER -> "done"

\* Where control goes after self._client.connect: else: break (the body is
\* next), the except clause, or out of _connect with the exception.
attempt_next(outcome) ==
    CASE outcome = "ok" -> "body"
      [] outcome = "SSHException" -> "sleep"
      [] OTHER -> "done"

\* One iteration of `for _ in range(retry_limit)`: the try block.
\*   success       -> else: break; _connect returns, __enter__ returns self
\*   SSHException  -> the except clause (connect_sleep)
\*   other         -> propagates out of _connect and __enter__; the with
\*                    statement never calls __exit__
connect_attempt ==
    /\ pc = "connect"
    /\ i < retry_limit
    /\ \E outcome \in ConnectOutcomes :
        /\ i' = i + 1
        /\ log' = Append(log, "attempt")
        /\ lastAttempt' = outcome
        /\ open' = IF outcome = "ok" THEN open + 1 ELSE open
        /\ pc' = attempt_next(outcome)
        /\ result' = IF outcome = "OtherError"
                     THEN Err("OtherError", 0, <<"connect">>)
                     ELSE result
    /\ UNCHANGED otherVars
    /\ UNCHANGED <<flow, retry_limit, closeCalls, op, cmdVars, printed,
                   cmdRet, cmdErr, scpVars, pending>>

\* except paramiko.SSHException: time.sleep(retry_interval_s); continue
connect_sleep ==
    /\ pc = "sleep"
    /\ log' = Append(log, "sleep")
    /\ pc' = "connect"
    /\ UNCHANGED otherVars
    /\ UNCHANGED <<flow, retry_limit, i, lastAttempt, open, closeCalls, op,
                   cmdVars, printed, cmdRet, cmdErr, scpVars, pending,
                   result>>

\* range(retry_limit) is exhausted: the for statement ends, _connect falls
\* off its end and returns None, __enter__ returns self and the body of the
\* guarded block is entered.
connect_loop_end ==
    /\ pc = "connect"
    /\ i >= retry_limit
    /\ pc' = "body"
    /\ UNCHANGED otherVars
    /\ UNCHANGED <<flow, connVars, op, cmdVars, printed, cmdRet, cmdErr,
                   scpVars, pending, result>>

(***************************************************************************)
(* SSHSession.run_cmd                                                      *)
(***************************************************************************)

\* Outcomes of self._client.exec_command(cmd, timeout=300).  A client whose
\* connect never succeeded has no active transport: the call cannot
\* succeed, it raises SSHException (inactive transport) or another
\* exception (no transport object at all).
ExecOutcomes == IF open = 0 THEN {"SSHException", "OtherError"}
                ELSE {"ok", "SSHException", "OtherError"}

\* Variant: the submission failure is raised as the error type of a failed
\* command.
exec_error_as_call_error(c, cause) == Err("SSHCallError", 1, <<c, cause>>)

\* raise IOError("The command `{}` failed to execute, the error was: {}"
\*               .format(cmd, ssh_error))
exec_error(c, cause) == Err("IOError", 0, <<c, cause>>)

\* Arguments the body passes to run_cmd: the provisioning check passes its
\* fixed command with check=True, writeout=True; a caller's block passes
\* anything.
RunCmdArgs ==
    IF flow = "pelion"
    THEN {[cmd |-> PelionCmd, check |-> TRUE, writeout |-> TRUE]}
    ELSE [cmd : Cmds, check : BOOLEAN, writeout : BOOLEAN]

\* run_cmd up to the end of its try statement: exec_command is called and
\* either raises or hands back the (stdin, stdout, stderr) channel files.
run_cmd ==
    /\ pc = "body"
    /\ flow \in {"pelion", "block"}
    /\ \E a \in RunCmdArgs, outcome \in ExecOutcomes, cause \in SSHCauses,
          e \in ExitCodes, out \in SeqsUpTo(StdoutLines, MaxLines),
          err \in SeqsUpTo(StderrLines, MaxLines) :
        /\ op' = "run_cmd"
        /\ cmd' = a.cmd
        /\ cmdCheck' = a.check
        /\ cmdWriteout' = a.writeout
        /\ execOutcome' = outcome
        /\ IF outcome = "ok"
           THEN /\ exitStatus' = e
                /\ origOut' = out
                /\ origErr' = err
                /\ remoteOut' = out
                /\ remoteErr' = err
                /\ fd' = 1
                /\ cmdErr' = cmdErr
                /\ pc' = "print"
           ELSE /\ cmdErr' = IF outcome = "SSHException"
                             THEN exec_error(a.cmd, cause)
                             ELSE Err("OtherError", 0, <<"exec_command">>)
                /\ pc' = "except"
                /\ UNCHANGED <<exitStatus, origOut, origErr, remoteOut,
                               remoteErr, fd>>
    /\ UNCHANGED otherVars
    /\ UNCHANGED <<flow, connVars, printed, exitReads, cmdRet, scpVars,
                   pending, result>>

\* Variant: only the stderr channel file is read by the writeout loop.
readable_stderr_only(k) == k = 3

\* out_fd.readable(): the stdin channel file is write-only, the stdout and
\* stderr channel files are readable.  ssh_chan_output = (stdin, stdout,
\* stderr), indexed 1..3.
readable(k) == k # 1

\* The unread part of the channel file at index k.
unread(k) == IF k = 2 THEN remoteOut ELSE IF k = 3 THEN remoteErr ELSE <<>>

\* print(buf, end="")
writeout_print(shown, buf) == Append(shown, buf)

\* _check_print_out with writeout false: the for loop is skipped.
check_print_out_no_writeout ==
    /\ pc = "print"
    /\ ~cmdWriteout
    /\ pc' = "check"
    /\ UNCHANGED otherVars
    /\ UNCHANGED <<flow, connVars, op, cmdVars, printed, cmdRet, cmdErr,
                   scpVars, pending, result>>

\* The while loop of the current out_fd ends (not readable, or readline
\* returned the empty string at end of stream): next out_fd, or the end of
\* the for loop.
check_print_out_next_fd ==
    /\ pc = "print"
    /\ cmdWriteout
    /\ fd \in 1 .. 3
    /\ ~readable(fd) \/ unread(fd) = <<>>
    /\ fd' = fd + 1
    /\ pc' = IF fd = 3 THEN "check" ELSE "print"
    /\ UNCHANGED otherVars
    /\ UNCHANGED <<flow, connVars, op, cmd, cmdCheck, cmdWriteout,
                   execOutcome, exitStatus, origOut, origErr, remoteOut,
                   remoteErr, printed, exitReads, cmdRet, cmdErr, scpVars,
                   pending, result>>

\* buf = out_fd.readline() returned a line: print it.
check_print_out_line ==
    /\ pc = "print"
    /\ cmdWriteout
    /\ fd \in 1 .. 3
    /\ readable(fd)
    /\ unread(fd) # <<>>
    /\ printed' = writeout_print(printed, Head(unread(fd)))
    /\ remoteOut' = IF fd = 2 THEN Tail(remoteOut) ELSE remoteOut
    /\ remoteErr' = IF fd = 3 THEN Tail(remoteErr) ELSE remoteErr
    /\ UNCHANGED otherVars
    /\ UNCHANGED <<flow, pc, connVars, op, cmd, cmdCheck, cmdWriteout,
                   execOutcome, exitStatus, origOut, origErr, fd, exitReads,
                   cmdRet, cmdErr, scpVars, pending, result>>

\* Variant: the exit status test is `exit_status > 0`.
call_error_positive_only(e, errbuf) ==
    IF e > 0
    THEN Err("SSHCallError", e, IF errbuf # <<>> THEN errbuf ELSE GenericMsg)
    ELSE NoError

\* The `if check:` block for exit status e, with errbuf what
\* stderr.read().decode() returns (the still unread part of stderr):
\* the SSHCallError raised, or NoError.
call_error(e, errbuf) ==
    IF e # 0
    THEN Err("SSHCallError", e, IF errbuf # <<>> THEN errbuf ELSE GenericMsg)
    ELSE NoError

\* `if check:` of _check_print_out, then run_cmd's `return cmd_output`.
check_print_out_check ==
    /\ pc = "check"
    /\ IF cmdCheck
       THEN /\ exitReads' = exitReads + 1
            /\ remoteErr' = IF exitStatus # 0 THEN <<>> ELSE remoteErr
            /\ cmdErr' = call_error(exitStatus, remoteErr)
       ELSE UNCHANGED <<exitReads, remoteErr, cmdErr>>
    /\ IF cmdErr' # NoError
       THEN pc' = "except" /\ cmdRet' = cmdRet
       ELSE pc' = "ret" /\ cmdRet' = "cmd_output"
    /\ UNCHANGED otherVars
    /\ UNCHANGED <<flow, connVars, op, cmd, cmdCheck, cmdWriteout,
                   execOutcome, exitStatus, origOut, origErr, remoteOut, fd,
                   printed, scpVars, pending, result>>

(***************************************************************************)
(* SSHSession.put / SSHSession.get under the _scp_session decorator        *)
(***************************************************************************)

\* wrapper: `with scp.SCPClient(self._client.get_transport(), ...)`.  The
\* constructor only stores the transport; the sub-session is now open.
scp_session_open ==
    /\ pc = "body"
    /\ flow \in {"put", "block"}
    /\ \E x \in (IF flow = "put" THEN {"put"} ELSE {"put", "get"}) :
        op' = x
    /\ scpOpens' = scpOpens + 1
    /\ scpOpen' = scpOpen + 1
    /\ pc' = "copy"
    /\ UNCHANGED otherVars
    /\ UNCHANGED <<flow, connVars, cmdVars, printed, cmdRet, cmdErr,
                   scpCloses, copies, copyErr, pending, result>>

\* transfer_func: scp_client.put(...) or scp_client.get(...).  Without an
\* active transport the copy cannot succeed.
scp_copy ==
    /\ pc = "copy"
    /\ \E outcome \in (IF open = 0 THEN {"error"} ELSE {"ok", "error"}) :
        copyErr' = IF outcome = "error"
                   THEN Err("SCPException", 0, <<op>>)
                   ELSE NoError
    /\ copies' = copies + 1
    /\ pc' = "scp_exit"
    /\ UNCHANGED otherVars
    /\ UNCHANGED <<flow, connVars, op, cmdVars, printed, cmdRet, cmdErr,
                   scpOpen, scpOpens, scpCloses, pending, result>>

\* Variant: the sub-session is closed by a plain call after transfer_func,
\* which an exception of the copy skips.
scp_teardown_on_success(err) == err = NoError

\* The with statement of the wrapper runs SCPClient.__exit__ whatever the
\* outcome err of the copy was.
scp_teardown(err) == TRUE

\* Variant: the wrapper reports a failed copy as an I/O error of its own.
scp_raised_wrapped(err) == Err("IOError", 0, err.msg)

\* The wrapper has no except clause: the exception of the copy leaves
\* put/get as it is.
scp_raised(err) == err

\* SCPClient.__exit__ tears the sub-session down and does not suppress;
\* the wrapper then returns None or lets the copy's exception through.
scp_session_exit ==
    /\ pc = "scp_exit"
    /\ scpCloses' = IF scp_teardown(copyErr) THEN scpCloses + 1 ELSE scpCloses
    /\ scpOpen' = IF scp_teardown(copyErr) THEN 0 ELSE scpOpen
    /\ IF copyErr # NoError
       THEN cmdErr' = scp_raised(copyErr) /\ cmdRet' = cmdRet
            /\ pc' = "except"
       ELSE cmdErr' = cmdErr /\ cmdRet' = "None" /\ pc' = "ret"
    /\ UNCHANGED otherVars
    /\ UNCHANGED <<flow, connVars, op, cmdVars, printed, scpOpens, copies,
                   copyErr, pending, result>>

(***************************************************************************)
(* The body of the guarded block                                           *)
(***************************************************************************)

\* Code of the caller's own block raises.
body_caller_raise ==
    /\ pc = "body"
    /\ flow = "block"
    /\ op' = "raise"
    /\ cmdErr' = Err("CallerError", 0, <<"body">>)
    /\ pc' = "except"
    /\ UNCHANGED otherVars
    /\ UNCHANGED <<flow, connVars, cmdVars, printed, cmdRet, scpVars,
                   pending, result>>

\* Variant: the handler is `except Exception`.
pelion_handler_catch_all(err) ==
    Err("PelionConfigurationError", 0, PelionGuidance)

\* pelion_status_action.execute: `except SSHCallError: raise
\* PelionConfigurationError(...)`; any other exception is not caught.
pelion_handler(err) ==
    IF err.type = "SSHCallError"
    THEN Err("PelionConfigurationError", 0, PelionGuidance)
    ELSE err

\* The exception of run_cmd passes the try statement of the provisioning
\* check and leaves the body.
pelion_except ==
    /\ pc = "except"
    /\ flow = "pelion"
    /\ pending' = pelion_handler(cmdErr)
    /\ pc' = "exit"
    /\ UNCHANGED otherVars
    /\ UNCHANGED <<flow, connVars, op, cmdVars, printed, cmdRet, cmdErr,
                   scpVars, result>>

\* put_action.execute and the caller's block have no handler in the body:
\* the exception leaves the body as it is.
body_propagate ==
    /\ pc = "except"
    /\ flow \in {"put", "block"}
    /\ pending' = cmdErr
    /\ pc' = "exit"
    /\ UNCHANGED otherVars
    /\ UNCHANGED <<flow, connVars, op, cmdVars, printed, cmdRet, cmdErr,
                   scpVars, result>>

\* The operation returned: the body ends normally.
body_end ==
    /\ pc = "ret"
    /\ pc' = "exit"
    /\ UNCHANGED otherVars
    /\ UNCHANGED <<flow, connVars, op, cmdVars, printed, cmdRet, cmdErr,
                   scpVars, pending, result>>

(***************************************************************************)
(* SSHSession.__exit__                                                     *)
(***************************************************************************)

\* Variant: the close goes through the transport object and raises when
\* there is none.
client_close_unguarded(o) ==
    [open |-> 0,
     err |-> IF o = 0 THEN Err("AttributeError", 0, <<"close">>)
             ELSE NoError]

\* self._client.close() on a client with o live transports: the transport,
\* if any, is closed; a client without transport is left as it is; no
\* exception either way.
client_close(o) == [open |-> 0, err |-> NoError]

\* Variant: __exit__ returns a true value.
exit_suppresses_always == TRUE

\* `return False`: __exit__ never suppresses the exception of the body.
exit_suppresses == FALSE

\* The with statement calls __exit__: self._client.close().
exit ==
    /\ pc = "exit"
    /\ LET r == client_close(open)
       IN  /\ open' = r.open
           /\ pending' = IF r.err # NoError THEN r.err ELSE pending
    /\ closeCalls' = closeCalls + 1
    /\ pc' = "leave"
    /\ UNCHANGED otherVars
    /\ UNCHANGED <<flow, retry_limit, i, log, lastAttempt, op, cmdVars,
                   printed, cmdRet, cmdErr, scpVars, result>>

\* __exit__ has returned: the with statement re-raises the exception of the
\* body unless __exit__ returned true; put_action.execute prints its final
\* line on the normal path; the flow's caller observes the outcome.
with_leave ==
    /\ pc = "leave"
    /\ LET raised == pending # NoError /\ ~exit_suppresses
       IN  /\ result' = IF raised THEN pending ELSE Returned
           /\ printed' = IF flow = "put" /\ ~raised
                         THEN Append(printed, "Completed")
                         ELSE printed
    /\ pc' = "done"
    /\ UNCHANGED otherVars
    /\ UNCHANGED <<flow, connVars, op, cmdVars, cmdRet, cmdErr, scpVars,
                   pending>>

\* A caller releases the session directly: before entering it (never
\* connected) or once more after the guarded block is over.
close_call ==
    /\ flow = "block"
    /\ pc \in {"start", "done"}
    /\ closeCalls < MaxCloseCalls
    /\ LET r == client_close(open)
       IN  /\ open' = r.open
           /\ result' = IF r.err # NoError THEN r.err
                        ELSE IF pc = "start" THEN Returned ELSE result
    /\ closeCalls' = closeCalls + 1
    /\ pc' = "done"
    /\ UNCHANGED otherVars
    /\ UNCHANGED <<flow, retry_limit, i, log, lastAttempt, op, cmdVars,
                   printed, cmdRet, cmdErr, scpVars, pending>>

Next ==
    \/ enter
    \/ connect_attempt
    \/ connect_sleep
    \/ connect_loop_end
    \/ run_cmd
    \/ check_print_out_no_writeout
    \/ check_print_out_next_fd
    \/ check_print_out_line
    \/ check_print_out_check
    \/ scp_session_open
    \/ scp_copy
    \/ scp_session_exit
    \/ body_caller_raise
    \/ pelion_except
    \/ body_propagate
    \/ body_end
    \/ exit
    \/ with_leave
    \/ close_call

Spec == Init /\ [][Next]_vars

(***************************************************************************)
(* Properties                                                              *)
(***************************************************************************)

\* The connect step is over and every attempt it made raised SSHException.
ConnectExhausted ==
    /\ pc \notin {"start", "connect", "sleep"}
    /\ lastAttempt = "SSHException"

\* run_cmd submitted the command and has returned or raised.
RunCmdFinished ==
    /\ op = "run_cmd"
    /\ execOutcome = "ok"
    /\ pc \notin {"print", "check"}

Attempts == Len(SelectSeq(log, LAMBDA ev : ev = "attempt"))

\* C1: when every connection attempt raises a protocol-level exception, the
\* connect step makes exactly retry_limit attempts, with a sleep between
\* consecutive attempts, and a Connection Error then reaches the caller.
C1_RetriesThenConnectionError ==
    ConnectExhausted =>
        /\ Attempts = retry_limit
        /\ \A k \in 1 .. (Len(log) - 1) :
              ~(log[k] = "attempt" /\ log[k + 1] = "attempt")
        /\ pc = "done"
        /\ result.type = "ConnectionError"

\* C2: after retry_limit consecutive failed attempts connect never returns
\* normally; the caller of the guarded block observes a Connection Error.
C2_ExhaustedConnectFails ==
    (lastAttempt = "SSHException" /\ i = retry_limit) =>
        /\ pc # "body"
        /\ (pc \notin {"connect", "sleep"} => result.type = "ConnectionError")

\* C3: a Session has at most one open connection, and the body of the
\* guarded block is entered, and an operation attempted, only after a
\* connect attempt succeeded.
C3_ConnectedBeforeOperations ==
    /\ open <= 1
    /\ (pc \in {"body", "print", "check", "copy", "scp_exit", "except", "ret"}
           => lastAttempt = "ok")
    /\ (op # "none" => lastAttempt = "ok")

\* C4: when the body of the guarded block raises, the connection is closed
\* exactly once before the exception reaches the caller, and the caller
\* observes the exception that left the body.
C4_ClosedOnceBeforeBodyErrorPropagates ==
    cmdErr # NoError =>
        /\ (pc \in {"except", "exit"} => result = Running /\ closeCalls = 0)
        /\ (pc = "leave" =>
               result = Running /\ closeCalls = 1 /\ open = 0)
        /\ (pc = "done" =>
               /\ pending # NoError
               /\ result = pending
               /\ open = 0
               /\ closeCalls >= 1)

C4_Witness ==
    /\ pc = "done"
    /\ lastAttempt = "ok"
    /\ cmdErr.type = "CallerError"
    /\ result = cmdErr
    /\ closeCalls = 1

\* C5: a second (or later) close of the same Session raises nothing and
\* leaves the Session closed, as the first close left it.
C5_CloseIdempotent ==
    [][(closeCalls >= 1 /\ closeCalls' = closeCalls + 1) =>
          /\ open = 0
          /\ open' = 0
          /\ result' = result
          /\ pc' = pc]_vars

C5_Witness ==
    /\ closeCalls = 2
    /\ lastAttempt = "ok"
    /\ open = 0
    /\ result = Returned

\* C6: with check set, run_cmd raises a Command Error exactly when the
\* remote exit status is nonzero, the error carries that status, and with
\* status 0 the output streams are returned; for both values of writeout.
C6_CommandErrorIffNonzeroExit ==
    (RunCmdFinished /\ cmdCheck) =>
        /\ (cmdErr.type = "SSHCallError") <=> (exitStatus # 0)
        /\ (exitStatus # 0 => cmdErr.code = exitStatus /\ cmdRet = "none")
        /\ (exitStatus = 0 => cmdErr = NoError /\ cmdRet = "cmd_output")
        /\ exitReads = 1

C6_Witness ==
    /\ RunCmdFinished
    /\ cmdCheck
    /\ cmdWriteout
    /\ exitStatus = 2
    /\ cmdErr.type = "SSHCallError"
    /\ cmdErr.code = 2

\* C7: the Command Error's message is the text the remote command wrote to
\* standard error whenever that text is nonempty, and the generic notice
\* only when it wrote nothing; for both values of writeout.
C7_MessageIsStderrText ==
    (RunCmdFinished /\ cmdCheck /\ exitStatus # 0) =>
        cmdErr.msg = (IF origErr # <<>> THEN origErr ELSE GenericMsg)

IsStdoutLine(l) == l \in StdoutLines

\* C8: with writeout set, when run_cmd returns or raises a Command Error
\* every line of the remote standard output has been printed exactly once,
\* in the order the remote produced it.
C8_StdoutPrintedInOrder ==
    (RunCmdFinished /\ cmdWriteout) =>
        SelectSeq(printed, IsStdoutLine) = origOut

C8_Witness ==
    /\ RunCmdFinished
    /\ cmdWriteout
    /\ pc = "except"
    /\ cmdErr.type = "SSHCallError"
    /\ origOut = <<"o2", "o1">>
    /\ printed = <<"o2", "o1", "e1">>

\* C9: a transport exception while submitting the command is reported as an
\* I/O error carrying the command and the cause, with nothing printed and
\* no exit status read; a command that ran and exited nonzero under check
\* is reported as a Command Error.
C9_SubmissionFailureIsIOError ==
    /\ (op = "run_cmd" /\ execOutcome = "SSHException") =>
          /\ cmdErr.type = "IOError"
          /\ cmdErr.msg[1] = cmd
          /\ cmdErr.msg[2] \in SSHCauses
          /\ printed = <<>>
          /\ exitReads = 0
    /\ (RunCmdFinished /\ cmdCheck /\ exitStatus # 0) =>
          cmdErr.type = "SSHCallError"

C9_Witness ==
    /\ op = "run_cmd"
    /\ execOutcome = "SSHException"
    /\ lastAttempt = "ok"
    /\ cmdCheck
    /\ pc = "done"
    /\ result.type = "IOError"

\* C10: in the provisioning check a Command Error of the status command
\* reaches the caller as the domain configuration error with the fixed
\* guidance text, after the connection was closed; an I/O error reaches the
\* caller as it is.
C10_CommandErrorTranslated ==
    flow = "pelion" =>
        /\ (cmdErr.type = "SSHCallError" /\ pc \in {"exit", "leave"}) =>
              pending = Err("PelionConfigurationError", 0, PelionGuidance)
        /\ (cmdErr.type = "SSHCallError" /\ result # Running) =>
              /\ result = Err("PelionConfigurationError", 0, PelionGuidance)
              /\ open = 0
              /\ closeCalls = 1
        /\ (cmdErr.type = "IOError" /\ result # Running) =>
              /\ result = cmdErr
              /\ open = 0

C10_Witness ==
    /\ flow = "pelion"
    /\ pc = "done"
    /\ lastAttempt = "ok"
    /\ exitStatus = 2
    /\ cmdErr.type = "SSHCallError"
    /\ result.type = "PelionConfigurationError"

\* put or get has returned or raised.
TransferFinished ==
    /\ op \in {"put", "get"}
    /\ pc \notin {"copy", "scp_exit"}

C12_TransferErrorUnchangedNoRetry ==
    (TransferFinished /\ copyErr # NoError) =>
        /\ copies = 1
        /\ scpOpens = 1
        /\ cmdErr = copyErr
        /\ cmdRet = "none"
        /\ (pc = "done" => result = copyErr)

C12_Witness ==
    /\ op = "put"
    /\ flow = "put"
    /\ lastAttempt = "ok"
    /\ pc = "done"
    /\ result = Err("SCPException", 0, <<"put">>)
    /\ copies = 1

\* C19: connect stops at the first successful attempt: after k-1 protocol
\* failures and a success there are exactly k attempts and k-1 sleeps, each
\* sleep after a failure, and nothing follows the success; a failure that is
\* not a protocol exception leaves connect at once, without sleep or retry.
C19_StopsAtFirstSuccess ==
    /\ lastAttempt = "ok" =>
          /\ pc \notin {"connect", "sleep"}
          /\ i <= retry_limit
          /\ Len(log) = 2 * i - 1
          /\ \A k \in 1 .. Len(log) :
                log[k] = (IF k % 2 = 1 THEN "attempt" ELSE "sleep")
          /\ open = (IF closeCalls = 0 THEN 1 ELSE 0)
    /\ lastAttempt = "OtherError" =>
          /\ pc = "done"
          /\ result.type \in {"OtherError"}
          /\ Len(log) = 2 * i - 1
          /\ log[Len(log)] = "attempt"
          /\ open = 0

C19_Witness ==
    /\ lastAttempt = "ok"
    /\ retry_limit = 3
    /\ log = <<"attempt", "sleep", "attempt">>
    /\ pc = "done"

(***************************************************************************)
(* scp_progress (ssh.py 22-43): the progress callback of the scp client.   *)
(* SpecProgress is a sequence of calls for one file.                       *)
(***************************************************************************)

\* The scp client passes the file name as bytes or as str.
ProgressNames == {[kind |-> "bytes", text |-> "f"],
                  [kind |-> "str", text |-> "f"]}

\* File sizes, and the sent values a call can carry for a file of size n.
ProgressSizes == {0, 1, 3, 200}
ProgressSents(n) == {x \in {0, 1, 2, 3, 50, 200} : x <= n}

\* try: fname = filename.decode() / except AttributeError: fname = filename
progress_fname(name) == name.text

\* "{:2.1%}".format(sent / size): the ratio as a percentage with one
\* decimal, rounded to the nearest; the value is kept in tenths of a percent.
progress_percent(sent, size) == (2000 * sent + size) \div (2 * size)

\* Variant: the suppression flag is not consulted.
progress_prints_unsuppressed(sent, flag) == sent # 0

\* if sent and not SUPPRESS_PROGRESS
progress_prints(sent, flag) == sent # 0 /\ ~flag

\* The two print calls: the progress line, then the vt100 clear-line code.
progress_output(name, size, sent) ==
    <<[fname |-> progress_fname(name), tenths |-> progress_percent(sent, size)],
      "ESC[2K">>

InitProgress ==
    /\ SessionIdle
    /\ suppress \in BOOLEAN
    /\ pname \in ProgressNames
    /\ psize \in ProgressSizes
    /\ psent = 0
    /\ pcalls = 0
    /\ pout = <<>>
    /\ AuthIdle
    /\ RelayIdle

\* One call scp_progress(pname, psize, sent).
scp_progress ==
    /\ pcalls < MaxProgressCalls
    /\ \E sent \in ProgressSents(psize) :
        /\ psent' = sent
        /\ pout' = IF progress_prints(sent, suppress)
                   THEN pout \o progress_output(pname, psize, sent)
                   ELSE pout
    /\ pcalls' = pcalls + 1
    /\ UNCHANGED <<suppress, pname, psize>>
    /\ UNCHANGED <<sessionVars, authVars, relayVars>>

NextProgress == scp_progress

SpecProgress == InitProgress /\ [][NextProgress]_vars

\* C17: a call prints a progress line if and only if sent is nonzero and
\* the suppression flag is not set; the line carries sent/size as a
\* percentage with one decimal (25.0% for 50 of 200, 100.0% for 200 of
\* 200); with the flag set no call of any sequence prints anything.
C17_ProgressPrintedIffSentAndNotSuppressed ==
    /\ [](suppress => pout = <<>>)
    /\ [][pcalls' = pcalls + 1 =>
            /\ (pout' # pout) <=> (psent' # 0 /\ ~suppress)
            /\ pout' # pout =>
                  /\ Len(pout') = Len(pout) + 2
                  /\ SubSeq(pout', 1, Len(pout)) = pout
                  /\ pout'[Len(pout) + 1].fname = "f"
                  /\ LET t == pout'[Len(pout) + 1].tenths
                     IN  /\ 2 * (t * psize - 1000 * psent') <= psize
                         /\ 2 * (1000 * psent' - t * psize) <= psize
                         /\ (psent' = 50 /\ psize = 200 => t = 250)
                         /\ (psent' = 200 /\ psize = 200 => t = 1000)]_vars

C17_Witness ==
    /\ pcalls = 3
    /\ ~suppress
    /\ psize = 200
    /\ pout = <<[fname |-> "f", tenths |-> 250], "ESC[2K",
                [fname |-> "f", tenths |-> 1000], "ESC[2K">>

(***************************************************************************)
(* Authentication: the arguments _connect passes to self._client.connect   *)
(* (ssh.py 160-184) and SSHClientWithNoAuthSupport._auth (ssh.py 70-78).   *)
(* SpecAuth is one connect call against one device.  Keys of an ssh agent  *)
(* or of the default key files are taken to be absent.                     *)
(***************************************************************************)

AuthMethods == {"none", "publickey", "password"}

\* The keys of the dictionary config.lookup(hostname) returns: paramiko
\* always supplies "hostname", and "identityfile" when the config maps one.
lookup_keys(mapped) ==
    {"hostname"} \cup (IF mapped THEN {"identityfile"} ELSE {})

\* cdict of _connect: the lookup result when the config file exists, else
\* None (the empty set stands for None: both are false in `if cdict`).
cdict_keys(exists, mapped) == IF exists THEN lookup_keys(mapped) ELSE {}

\* key_filename=cdict["identityfile"] if cdict else None
key_filename(keys) ==
    IF keys # {}
    THEN (IF "identityfile" \in keys THEN "identityfile" ELSE "KeyError")
    ELSE "None"

InitAuth ==
    /\ SessionIdle
    /\ ProgIdle
    /\ RelayIdle
    /\ confExists \in BOOLEAN
    /\ idMapped \in BOOLEAN
    /\ (idMapped => confExists)
    /\ hasPassword \in BOOLEAN
    /\ accepts \in SUBSET AuthMethods
    /\ apc = "start"
    /\ keyArg = "None"
    /\ pwArg = "None"
    /\ noneOutcome = "none"
    /\ negotiated = FALSE
    /\ authLog = <<>>
    /\ authResult = "running"

\* The config lookup and the evaluation of the arguments of
\* self._client.connect; a KeyError of cdict["identityfile"] is no
\* SSHException and leaves _connect.
connect_args ==
    /\ apc = "start"
    /\ LET k == key_filename(cdict_keys(confExists, idMapped))
       IN  IF k = "KeyError"
           THEN /\ authResult' = "KeyError"
                /\ apc' = "done"
                /\ UNCHANGED <<keyArg, pwArg>>
           ELSE /\ keyArg' = k
                /\ pwArg' = IF hasPassword THEN "password" ELSE "None"
                /\ apc' = "auth"
                /\ UNCHANGED authResult
    /\ UNCHANGED <<confExists, idMapped, hasPassword, accepts, noneOutcome,
                   negotiated, authLog>>
    /\ UNCHANGED <<sessionVars, progVars, relayVars>>

\* Variant: the fallback is taken after any failure of the direct attempt.
auth_falls_back_on_any(outcome) == outcome # "ok"

\* except paramiko.SSHException: only a protocol exception of auth_none
\* leads to super()._auth.
auth_falls_back(outcome) == outcome = "SSHException"

\* _auth: self._transport.auth_none(username).  A device that accepts
\* "none" authenticates the session; otherwise auth_none raises a protocol
\* exception; the transport can also fail with another exception.
auth_none ==
    /\ apc = "auth"
    /\ \E outcome \in {IF "none" \in accepts THEN "ok" ELSE "SSHException",
                       "OtherError"} :
        /\ noneOutcome' = outcome
        /\ authLog' = Append(authLog, "none")
        /\ IF auth_falls_back(outcome)
           THEN apc' = "negotiate" /\ UNCHANGED authResult
           ELSE /\ apc' = "done"
                /\ authResult' = IF outcome = "ok" THEN "authenticated"
                                 ELSE outcome
    /\ UNCHANGED <<confExists, idMapped, hasPassword, accepts, keyArg, pwArg,
                   negotiated>>
    /\ UNCHANGED <<sessionVars, progVars, relayVars>>

\* The methods paramiko's SSHClient._auth tries, in its order: the key of
\* key_filename, then the password.
negotiation_order ==
    (IF keyArg # "None" THEN <<"publickey">> ELSE <<>>)
        \o (IF pwArg # "None" THEN <<"password">> ELSE <<>>)

RECURSIVE tried_until_accepted(_)
\* The prefix of the methods ms that is tried: up to the first accepted one.
tried_until_accepted(ms) ==
    IF ms = <<>> THEN <<>>
    ELSE IF Head(ms) \in accepts THEN <<Head(ms)>>
    ELSE <<Head(ms)>> \o tried_until_accepted(Tail(ms))

\* super()._auth(username, *args): the library's standard negotiation; it
\* raises a protocol exception when no method is left.
auth_negotiate ==
    /\ apc = "negotiate"
    /\ negotiated' = TRUE
    /\ LET tried == tried_until_accepted(negotiation_order)
       IN  /\ authLog' = authLog \o tried
           /\ authResult' = IF tried # <<>> /\ tried[Len(tried)] \in accepts
                            THEN "authenticated"
                            ELSE "SSHException"
    /\ apc' = "done"
    /\ UNCHANGED <<confExists, idMapped, hasPassword, accepts, keyArg, pwArg,
                   noneOutcome>>
    /\ UNCHANGED <<sessionVars, progVars, relayVars>>

NextAuth ==
    \/ connect_args
    \/ auth_none
    \/ auth_negotiate

SpecAuth == InitAuth /\ [][NextAuth]_vars

\* C16: connect attempts key-based authentication when the configuration
\* maps an identity file for the host, otherwise password authentication
\* when the device has a password, and the direct no-auth step only when
\* neither is supplied; a configuration that exists but maps no identity
\* file is no error.
C16_AuthenticationOrder ==
    /\ authLog # <<>> =>
          authLog[1] = (IF idMapped THEN "publickey"
                        ELSE IF hasPassword THEN "password"
                        ELSE "none")
    /\ (\E k \in 1 .. Len(authLog) : authLog[k] = "none") =>
          (~idMapped /\ ~hasPassword)
    /\ (confExists /\ ~idMapped) => authResult # "KeyError"

\* C18: the direct no-auth attempt comes first; the library's standard
\* negotiation follows if and only if that attempt was rejected with a
\* protocol exception, and never after a successful no-auth attempt.
C18_NoAuthThenNegotiation ==
    /\ authLog # <<>> => authLog[1] = "none"
    /\ negotiated => (noneOutcome = "SSHException" /\ authLog[1] = "none")
    /\ (apc = "done" /\ noneOutcome = "SSHException") => negotiated
    /\ noneOutcome = "ok" =>
          (~negotiated /\ authLog = <<"none">> /\ apc = "done"
              /\ authResult = "authenticated")
    /\ noneOutcome = "OtherError" =>
          (~negotiated /\ authLog = <<"none">> /\ authResult = "OtherError")

C18_Witness ==
    /\ apc = "done"
    /\ noneOutcome = "SSHException"
    /\ negotiated
    /\ authLog = <<"none", "publickey", "password">>
    /\ authResult = "authenticated"

(***************************************************************************)
(* The interactive shell relay (shell.py).  SpecShell is one shell started *)
(* by SSHSession.start_shell on an open channel: PosixSSHShell.run under   *)
(* the termios_tty decorator, or WindowsSSHShell.run with its thread.  The *)
(* remote shell and the user are the environment: bytes arrive on the      *)
(* channel one at a time, the user types one unit at a time.               *)
(***************************************************************************)

Platforms == {"Posix", "Windows"}
TtyModes == {"cooked", "noecho"}

\* Characters the remote shell writes, and their UTF-8 encoding.
RemoteChars == {"a", "e-acute"}
encode_char(c) == IF c = "a" THEN <<"61">> ELSE <<"C3", "A9">>

RECURSIVE encode(_)
encode(text) ==
    IF text = <<>> THEN <<>>
    ELSE encode_char(Head(text)) \o encode(Tail(text))

RECURSIVE decode(_)
\* bytes.decode(): the characters of a well-formed UTF-8 byte string, or
\* UnicodeDecodeError for a truncated or misplaced byte.
decode(bytes) ==
    IF bytes = <<>> THEN [ok |-> TRUE, text |-> <<>>]
    ELSE IF Head(bytes) = "61"
    THEN LET r == decode(Tail(bytes))
         IN  [ok |-> r.ok, text |-> <<"a">> \o r.text]
    ELSE IF Head(bytes) = "C3" /\ Len(bytes) >= 2 /\ bytes[2] = "A9"
    THEN LET r == decode(SubSeq(bytes, 3, Len(bytes)))
         IN  [ok |-> r.ok, text |-> <<"e-acute">> \o r.text]
    ELSE [ok |-> FALSE, text |-> <<>>]

LocalUnits == {"x", "y"}

PosixNotice == "Shell terminated."
WindowsNotice == "Shell terminated. Press Enter to quit."

\* The characters written to the display, without the termination notices.
IsRelayed(c) == c \in RemoteChars

InitShell ==
    /\ SessionIdle
    /\ ProgIdle
    /\ AuthIdle
    /\ platform \in Platforms
    /\ spc = "start"
    /\ rpc = "idle"
    /\ writeTask = "unset"
    /\ ttyBefore \in TtyModes
    /\ tty = ttyBefore
    /\ oldtty = "unset"
    /\ \E text \in SeqsUpTo(RemoteChars, MaxRemoteChars) :
          remotePending = encode(text)
    /\ chanBuf = <<>>
    /\ remoteClosed = FALSE
    /\ recvd = <<>>
    /\ display = <<>>
    /\ stdinPending \in SeqsUpTo(LocalUnits, MaxLocalUnits)
    /\ stdinBuf = <<>>
    /\ stdinEof = FALSE
    /\ readUnits = <<>>
    /\ sentUnits = <<>>
    /\ rlist = {}
    /\ lastRecv = "none"
    /\ timeouts = 0
    /\ sawEmptyRead = FALSE
    /\ sawLocalEof = FALSE
    /\ sentAfterEmpty = 0
    /\ shellErr = NoError

RelayRunning == spc \notin {"idle", "done"}

envVars == <<remotePending, chanBuf, remoteClosed, stdinPending, stdinBuf,
             stdinEof>>
ttyVars == <<tty, oldtty, ttyBefore>>
histVars == <<recvd, display, readUnits, sentUnits, lastRecv, timeouts,
              sawEmptyRead, sawLocalEof, sentAfterEmpty>>

(* The environment *)

\* The next byte of the remote shell's output arrives on the channel.
remote_send ==
    /\ RelayRunning
    /\ ~remoteClosed
    /\ remotePending # <<>>
    /\ chanBuf' = Append(chanBuf, Head(remotePending))
    /\ remotePending' = Tail(remotePending)
    /\ UNCHANGED <<platform, spc, rpc, writeTask, ttyVars, remoteClosed,
                   stdinPending, stdinBuf, stdinEof, histVars, rlist,
                   shellErr>>
    /\ UNCHANGED <<sessionVars, progVars, authVars>>

\* The remote shell has written all its output and closes the channel.
remote_close ==
    /\ RelayRunning
    /\ ~remoteClosed
    /\ remotePending = <<>>
    /\ remoteClosed' = TRUE
    /\ UNCHANGED <<platform, spc, rpc, writeTask, ttyVars, remotePending,
                   chanBuf, stdinPending, stdinBuf, stdinEof, histVars, rlist,
                   shellErr>>
    /\ UNCHANGED <<sessionVars, progVars, authVars>>

\* The user types the next unit.
local_type ==
    /\ RelayRunning
    /\ ~stdinEof
    /\ stdinPending # <<>>
    /\ stdinBuf' = Append(stdinBuf, Head(stdinPending))
    /\ stdinPending' = Tail(stdinPending)
    /\ UNCHANGED <<platform, spc, rpc, writeTask, ttyVars, remotePending,
                   chanBuf, remoteClosed, stdinEof, histVars, rlist,
                   shellErr>>
    /\ UNCHANGED <<sessionVars, progVars, authVars>>

\* The user ends the local input.
local_eof ==
    /\ RelayRunning
    /\ ~stdinEof
    /\ stdinPending = <<>>
    /\ stdinEof' = TRUE
    /\ UNCHANGED <<platform, spc, rpc, writeTask, ttyVars, remotePending,
                   chanBuf, remoteClosed, stdinPending, stdinBuf, histVars,
                   rlist, shellErr>>
    /\ UNCHANGED <<sessionVars, progVars, authVars>>

(* Reads and writes shared by the two variants *)

\* chan.recv(1024) on a channel with unread bytes: at most the requested
\* number of bytes (MaxRecv stands for 1024).
recv_chunk(buf) == SubSeq(buf, 1, IF Len(buf) < MaxRecv THEN Len(buf) ELSE MaxRecv)
recv_rest(buf) == SubSeq(buf, Len(recv_chunk(buf)) + 1, Len(buf))

\* Outcomes of chan.send(unit): the unit is sent; on a channel the remote
\* side has closed the call can raise socket.error instead.
SendOutcomes == IF remoteClosed THEN {"ok", "socket.error"} ELSE {"ok"}

(* Variant A: PosixSSHShell.run under termios_tty *)

\* termios_tty wrapper: oldtty = termios.tcgetattr(sys.stdin), then inside
\* the try: tty.setraw, tty.setcbreak, self.chan.settimeout(0.0).  The
\* terminal calls can raise termios.error, before or after the raw mode
\* took effect.
termios_tty_enter ==
    /\ platform = "Posix"
    /\ spc = "start"
    /\ oldtty' = tty
    /\ \E outcome \in {"ok", "error"} :
        IF outcome = "ok"
        THEN /\ tty' = "cbreak"
             /\ spc' = "select"
             /\ UNCHANGED shellErr
        ELSE /\ tty' \in {tty, "raw"}
             /\ spc' = "finally"
             /\ shellErr' = Err("termios.error", 0, <<"setraw">>)
    /\ UNCHANGED <<platform, rpc, writeTask, ttyBefore, envVars, histVars,
                   rlist>>
    /\ UNCHANGED <<sessionVars, progVars, authVars>>

ChanReady == chanBuf # <<>> \/ remoteClosed
StdinReady == stdinBuf # <<>> \/ stdinEof

\* select.select([self.chan, sys.stdin], [], []) without timeout: returns
\* once something is ready.  The channel can be reported ready although a
\* read then finds nothing (the read times out).
posix_select ==
    /\ platform = "Posix"
    /\ spc = "select"
    /\ \E r \in SUBSET {"chan", "stdin"} :
        /\ r # {}
        /\ ("stdin" \in r) <=> StdinReady
        /\ ChanReady => "chan" \in r
        /\ ("chan" \in r /\ ~ChanReady) => timeouts < MaxTimeouts
        /\ rlist' = r
    /\ spc' = "chan"
    /\ UNCHANGED <<platform, rpc, writeTask, ttyVars, envVars, histVars,
                   shellErr>>
    /\ UNCHANGED <<sessionVars, progVars, authVars>>

\* `if self.chan in rlist:` with its try statement.
\*   bytes        -> decoded and written to sys.stdout, flushed
\*   empty read   -> the notice is written; break
\*   socket.timeout -> pass
\* A UnicodeDecodeError of decode() is not caught and leaves the loop.
posix_chan ==
    /\ platform = "Posix"
    /\ spc = "chan"
    /\ IF "chan" \notin rlist
       THEN /\ spc' = "stdin"
            /\ UNCHANGED <<chanBuf, recvd, display, lastRecv, timeouts,
                           sawEmptyRead, shellErr>>
       ELSE IF chanBuf # <<>>
       THEN LET chunk == recv_chunk(chanBuf)
                d == decode(chunk)
            IN  /\ chanBuf' = recv_rest(chanBuf)
                /\ recvd' = recvd \o chunk
                /\ lastRecv' = "data"
                /\ IF d.ok
                   THEN /\ display' = display \o d.text
                        /\ spc' = "stdin"
                        /\ UNCHANGED shellErr
                   ELSE /\ shellErr' = Err("UnicodeDecodeError", 0, chunk)
                        /\ spc' = "finally"
                        /\ UNCHANGED display
                /\ UNCHANGED <<timeouts, sawEmptyRead>>
       ELSE IF remoteClosed
       THEN /\ lastRecv' = "empty"
            /\ sawEmptyRead' = TRUE
            /\ display' = Append(display, PosixNotice)
            /\ spc' = "finally"
            /\ UNCHANGED <<chanBuf, recvd, timeouts, shellErr>>
       ELSE /\ lastRecv' = "timeout"
            /\ timeouts' = timeouts + 1
            /\ spc' = "stdin"
            /\ UNCHANGED <<chanBuf, recvd, display, sawEmptyRead, shellErr>>
    /\ UNCHANGED <<platform, rpc, writeTask, ttyVars, remotePending,
                   remoteClosed, stdinPending, stdinBuf, stdinEof, readUnits,
                   sentUnits, rlist, sawLocalEof, sentAfterEmpty>>
    /\ UNCHANGED <<sessionVars, progVars, authVars>>

\* `if sys.stdin in rlist:`: sys.stdin.read(1); the empty string (end of
\* file) breaks, anything else goes to self.chan.send unchanged.
posix_stdin ==
    /\ platform = "Posix"
    /\ spc = "stdin"
    /\ IF "stdin" \notin rlist
       THEN /\ spc' = "select"
            /\ UNCHANGED <<stdinBuf, readUnits, sentUnits, sawLocalEof,
                           sentAfterEmpty, shellErr>>
       ELSE IF stdinBuf = <<>>
       THEN /\ sawLocalEof' = TRUE
            /\ spc' = "finally"
            /\ UNCHANGED <<stdinBuf, readUnits, sentUnits, sentAfterEmpty,
                           shellErr>>
       ELSE /\ stdinBuf' = Tail(stdinBuf)
            /\ readUnits' = Append(readUnits, Head(stdinBuf))
            /\ sentAfterEmpty' = IF sawEmptyRead THEN sentAfterEmpty + 1
                                 ELSE sentAfterEmpty
            /\ \E outcome \in SendOutcomes :
                IF outcome = "ok"
                THEN /\ sentUnits' = Append(sentUnits, Head(stdinBuf))
                     /\ spc' = "select"
                     /\ UNCHANGED shellErr
                ELSE /\ shellErr' = Err("socket.error", 0, <<"send">>)
                     /\ spc' = "finally"
                     /\ UNCHANGED sentUnits
            /\ UNCHANGED sawLocalEof
    /\ UNCHANGED <<platform, rpc, writeTask, ttyVars, remotePending, chanBuf,
                   remoteClosed, stdinPending, stdinEof, recvd, display, rlist,
                   lastRecv, timeouts, sawEmptyRead>>
    /\ UNCHANGED <<sessionVars, progVars, authVars>>

\* Variant: the restore is a plain statement after the call of run, which
\* an exception skips.
termios_restore_on_return(old, cur, err) == IF err # NoError THEN cur ELSE old

\* finally: termios.tcsetattr(sys.stdin, termios.TCSADRAIN, oldtty): the
\* settings of the terminal after the wrapper, given the saved settings
\* old, the current ones cur and the exception err in flight.
termios_restore(old, cur, err) == old

\* The finally clause of the termios_tty wrapper; run's return or its
\* exception then leaves the wrapper.
termios_tty_finally ==
    /\ platform = "Posix"
    /\ spc = "finally"
    /\ tty' = termios_restore(oldtty, tty, shellErr)
    /\ spc' = "done"
    /\ UNCHANGED <<platform, rpc, writeTask, oldtty, ttyBefore, envVars,
                   histVars, rlist, shellErr>>
    /\ UNCHANGED <<sessionVars, progVars, authVars>>

(* Variant B: WindowsSSHShell.run *)

\* What threading.Thread(...).start() returns: start() has no return
\* value.
thread_start_value == "None"

\* write_task = threading.Thread(target=write_to_stdout,
\*                               args=(self.chan,)).start()
windows_start ==
    /\ platform = "Windows"
    /\ spc = "start"
    /\ rpc' = "recv"
    /\ writeTask' = thread_start_value
    /\ spc' = "read"
    /\ UNCHANGED <<platform, ttyVars, envVars, histVars, rlist, shellErr>>
    /\ UNCHANGED <<sessionVars, progVars, authVars>>

\* One iteration of the loop of write_to_stdout in the thread: a blocking
\* channel.recv(1024).decode(); the empty string ends the thread after the
\* notice, anything else is written and flushed.  A UnicodeDecodeError
\* ends the thread.
windows_write_to_stdout ==
    /\ platform = "Windows"
    /\ rpc = "recv"
    /\ ChanReady
    /\ IF chanBuf # <<>>
       THEN LET chunk == recv_chunk(chanBuf)
                d == decode(chunk)
            IN  /\ chanBuf' = recv_rest(chanBuf)
                /\ recvd' = recvd \o chunk
                /\ lastRecv' = "data"
                /\ IF d.ok
                   THEN display' = display \o d.text /\ rpc' = "recv"
                   ELSE display' = display /\ rpc' = "died"
                /\ UNCHANGED sawEmptyRead
       ELSE /\ lastRecv' = "empty"
            /\ sawEmptyRead' = TRUE
            /\ display' = Append(display, WindowsNotice)
            /\ rpc' = "done"
            /\ UNCHANGED <<chanBuf, recvd>>
    /\ UNCHANGED <<platform, spc, writeTask, ttyVars, remotePending,
                   remoteClosed, stdinPending, stdinBuf, stdinEof, readUnits,
                   sentUnits, rlist, timeouts, sawLocalEof, sentAfterEmpty,
                   shellErr>>
    /\ UNCHANGED <<sessionVars, progVars, authVars>>

\* One iteration of the loop of the main task: a blocking
\* sys.stdin.read(1).
\*   empty string -> write_task.join(), then raise EOFError, which the
\*                   except clause swallows; join on None raises
\*                   AttributeError, which it does not
\*   a unit       -> self.chan.send(stdin_data)
windows_stdin ==
    /\ platform = "Windows"
    /\ spc = "read"
    /\ StdinReady
    /\ IF stdinBuf = <<>>
       THEN /\ writeTask = "None" \/ rpc \in {"done", "died"}
            /\ sawLocalEof' = TRUE
            /\ shellErr' = IF writeTask = "None"
                           THEN Err("AttributeError", 0, <<"join">>)
                           ELSE NoError
            /\ spc' = "done"
            /\ UNCHANGED <<stdinBuf, readUnits, sentUnits, sentAfterEmpty>>
       ELSE /\ stdinBuf' = Tail(stdinBuf)
            /\ readUnits' = Append(readUnits, Head(stdinBuf))
            /\ sentAfterEmpty' = IF sawEmptyRead THEN sentAfterEmpty + 1
                                 ELSE sentAfterEmpty
            /\ \E outcome \in SendOutcomes :
                IF outcome = "ok"
                THEN /\ sentUnits' = Append(sentUnits, Head(stdinBuf))
                     /\ spc' = "read"
                     /\ UNCHANGED shellErr
                ELSE /\ shellErr' = Err("socket.error", 0, <<"send">>)
                     /\ spc' = "done"
                     /\ UNCHANGED sentUnits
            /\ UNCHANGED sawLocalEof
    /\ UNCHANGED <<platform, rpc, writeTask, ttyVars, remotePending, chanBuf,
                   remoteClosed, stdinPending, stdinEof, recvd, display, rlist,
                   lastRecv, timeouts, sawEmptyRead>>
    /\ UNCHANGED <<sessionVars, progVars, authVars>>

NextShell ==
    \/ remote_send
    \/ remote_close
    \/ local_type
    \/ local_eof
    \/ termios_tty_enter
    \/ posix_select
    \/ posix_chan
    \/ posix_stdin
    \/ termios_tty_finally
    \/ windows_start
    \/ windows_write_to_stdout
    \/ windows_stdin

SpecShell == InitShell /\ [][NextShell]_vars

\* The main task of the relay can take its next step without a further
\* event from the remote shell or from the user.
MainCanStep ==
    \/ spc \in {"start", "chan", "stdin", "finally"}
    \/ spc = "select" /\ (ChanReady \/ StdinReady)
    \/ spc = "read" /\ StdinReady
        /\ (stdinBuf # <<>> \/ writeTask = "None" \/ rpc \in {"done", "died"})

\* C13: in the raw-terminal relay an empty read of the remote channel stops
\* the loop without any further local input being forwarded, and whenever
\* the relay is left (remote close, local end of file, exception) the
\* terminal has the settings it had before the relay.
C13_EmptyReadStopsAndTtyRestored ==
    platform = "Posix" =>
        /\ sawEmptyRead =>
              /\ spc \in {"finally", "done"}
              /\ lastRecv = "empty"
              /\ sentAfterEmpty = 0
        /\ (spc \in {"select", "chan", "stdin", "finally"}
               => oldtty = ttyBefore)
        /\ (spc = "done" => tty = ttyBefore)

C13_Witness ==
    /\ platform = "Posix"
    /\ spc = "done"
    /\ sawEmptyRead
    /\ stdinBuf # <<>>
    /\ ttyBefore = "noecho"
    /\ tty = "noecho"

\* C14: in the threaded relay, when the main task reads the local end of
\* file it waits until the reader task has finished, and the relay then
\* ends without an error for the caller of start_shell.
C14_LocalEofJoinsReader ==
    (platform = "Windows" /\ sawLocalEof) =>
        /\ spc = "done"
        /\ rpc \in {"done", "died"}
        /\ shellErr = NoError

\* C15: once the remote channel returned an empty read or the local input
\* returned end of file, the relay ends without needing a further event
\* from the other side; in the threaded relay no local input is forwarded
\* after the reader task saw the remote close.
C15_RelayEndsAtEitherEof ==
    /\ ((sawEmptyRead \/ sawLocalEof) /\ spc # "done") => MainCanStep
    /\ platform = "Windows" => sentAfterEmpty = 0

\* C20: in the raw-terminal relay the display shows exactly the bytes
\* received from the channel, in order; the channel is sent exactly the
\* units read from local input, in order; a read timeout on the channel
\* neither ends the loop nor loses data.
C20_RelayPreservesBytes ==
    platform = "Posix" =>
        /\ (spc \in {"select", "stdin", "finally", "done"}
               => encode(SelectSeq(display, IsRelayed)) = recvd)
        /\ ((spc \in {"select", "chan", "finally", "done"}
                /\ shellErr.type # "socket.error")
               => sentUnits = readUnits)
        /\ ((lastRecv = "timeout" /\ spc = "finally")
               => (sawLocalEof \/ shellErr.type = "socket.error"))

====
